---------------------------- MODULE Spec2Model ----------------------------
(***************************************************************************)
(* Battleship Treasure Hunt: the coalition value engine and the game.      *)
(*                                                                         *)
(*   Player.allowed_positions          (src/models.py)  clue -> region     *)
(*   Game._calculate_clues_based_characteristic_function (src/game.py)     *)
(*                                                      players -> v(S)    *)
(*   shapley_sample                    (src/shapley.py) v -> payouts       *)
(*   Game                              (src/game.py)    events -> states   *)
(*                                                                         *)
(* Clue texts are strings; str.lower() and the `in` substring test are     *)
(* modelled character by character.  Cells are pairs <<row, col>>.         *)
(***************************************************************************)
EXTENDS Integers, Sequences, FiniteSets, TLC

VARIABLES
    clue,        \* allowed_positions: self.clue of the player compiled
    grid,        \* allowed_positions: the grid_size argument
    region,      \* allowed_positions: the returned set of cells
    compiled,    \* TRUE once allowed_positions has returned
    players,     \* Game.players: sequence of Player records
    grid_size,   \* Game.grid_size
    values,      \* the dict returned by the characteristic-function builder
    built,       \* TRUE once the builder has returned
    v,           \* shapley_sample: the mapping coalition -> value
    n_players,   \* shapley_sample: the n_players argument
    weights,     \* shapley_sample: the weights argument (None or a list)
    samples,     \* shapley_sample: the samples argument
    drawn,       \* shapley_sample: iterations of `for _ in range(samples)` done
    phi,         \* shapley_sample: the accumulator list
    outcome,     \* "idle", "running", "returned" or the exception raised
    payouts,     \* shapley_sample: the returned list of floats
    phi_unit,    \* accumulator of the same call made with unit weights
    phi_full,    \* accumulator of the same call on v completed with zeros
    previous,    \* the caller's copy of the payouts of an earlier call
    state,       \* Game.state
    name_inputs, \* len(Game.player_name_inputs): the name boxes on screen
    setup_error_message,  \* Game.setup_error_message
    treasure_grid,        \* Game.grid: the occupied cells and their Treasure
    ledger,      \* Game.ledger: coalition -> coins
    revealed,    \* Game.revealed: list of (row, col, hit)
    commits,     \* Game.commits: one flag per player
    current_coalition,    \* Game.current_coalition
    coalition_locked,     \* Game.coalition_locked
    round,       \* Game.round
    game_payouts,         \* Game.payouts: None or the list of payouts
    allowed_guesses,      \* Game.allowed_guesses: None or a set of cells
    last_guess_result,    \* Game.last_guess_result: None or (r, c, hit, coins)
    last_start   \* what the last Start Game read from the boxes and the files

compileVars == <<clue, grid, region, compiled>>
buildVars == <<players, grid_size, values, built>>
callVars == <<v, n_players, weights, samples>>
runVars == <<drawn, phi, outcome, payouts, phi_unit, phi_full>>
shapleyVars == <<callVars, runVars, previous>>
gameVars == <<state, name_inputs, setup_error_message, treasure_grid, ledger,
              revealed, commits, current_coalition, coalition_locked, round,
              game_payouts, allowed_guesses, last_guess_result, last_start>>
vars == <<clue, grid, region, compiled, players, grid_size, values, built,
          v, n_players, weights, samples, drawn, phi, outcome, payouts,
          phi_unit, phi_full, previous, state, name_inputs,
          setup_error_message, treasure_grid, ledger, revealed, commits,
          current_coalition, coalition_locked, round, game_payouts,
          allowed_guesses, last_guess_result, last_start>>

-----------------------------------------------------------------------------
(* Bounds of the model.                                                    *)

MaxGrid == 7
MaxPlayers == 3

\* shapley_sample: most agents, most samples of a short run, and the sample
\* count of the long runs.
MaxAgents == 2
MaxSamples == 3
LargeSamples == 49

-----------------------------------------------------------------------------
(* Python helpers.                                                         *)

\* range(a, b)
Range(a, b) == a .. (b - 1)

\* min(a, b)
Min(a, b) == IF a < b THEN a ELSE b

UpperAlpha == "ABCDEFGHIJKLMNOPQRSTUVWXYZ"
LowerAlpha == "abcdefghijklmnopqrstuvwxyz"

\* The small letter of every ASCII capital.
LowerMap ==
    [ch \in {SubSeq(UpperAlpha, i, i) : i \in 1..26} |->
        LET i == CHOOSE j \in 1..26 : SubSeq(UpperAlpha, j, j) = ch
        IN  SubSeq(LowerAlpha, i, i)]

\* One character of str.lower(): an ASCII capital maps to its small letter,
\* every other character to itself.
LowerChar(ch) == IF ch \in DOMAIN LowerMap THEN LowerMap[ch] ELSE ch

\* str.lower()
RECURSIVE lower(_)
lower(s) ==
    IF Len(s) = 0 THEN ""
    ELSE LowerChar(SubSeq(s, 1, 1)) \o lower(SubSeq(s, 2, Len(s)))

\* needle in hay  (substring test on str)
Contains(needle, hay) ==
    \E i \in 1 .. (Len(hay) - Len(needle) + 1) :
        SubSeq(hay, i, i + Len(needle) - 1) = needle

-----------------------------------------------------------------------------
(* Player.allowed_positions, src/models.py:22-45.                          *)

\* 1) Shallow-Sea Scout: rows 0 through 3
ShallowSeaRegion(g) ==
    {<<r, c>> : r \in Range(0, Min(4, g)), c \in Range(0, g)}

\* Variant of PrimeRegion without the clip `if c < grid_size`.
PrimeRegionUnclipped(g) ==
    {<<r, c>> : r \in Range(0, g), c \in {2, 3, 5, 7}}

\* 2) Prime Numerist: columns 2,3,5,7 below grid_size
PrimeRegion(g) ==
    {<<r, c>> : r \in Range(0, g), c \in {p \in {2, 3, 5, 7} : p < g}}

\* Variant of ParityRegion with the parity test inverted.
ParityRegionEven(g) ==
    {rc \in Range(0, g) \X Range(0, g) : (rc[1] + rc[2]) % 2 = 0}

\* 3) Parity Jester: (row+col)%2 == 1
ParityRegion(g) ==
    {rc \in Range(0, g) \X Range(0, g) : (rc[1] + rc[2]) % 2 = 1}

\* 4) Humble Tactician: row < col
RankRegion(g) ==
    {rc \in Range(0, g) \X Range(0, g) : rc[1] < rc[2]}

\* Variant of EastRegion that starts east of column 6.
EastRegionBeyond(g) ==
    {<<r, c>> : r \in Range(0, g), c \in Range(7, g)}

\* 5) Western Cartographer: columns >= 6
EastRegion(g) ==
    {<<r, c>> : r \in Range(0, g), c \in Range(6, g)}

\* 6) Three-Beat Chronomancer: row%3 == 2
ChronoRegion(g) ==
    {rc \in Range(0, g) \X Range(0, g) : rc[1] % 3 = 2}

\* Variant of FallbackRegion that rejects an unrecognised clue.
FallbackRegionEmpty(g) == {}

\* Fallback: allow full grid
FallbackRegion(g) ==
    {<<r, c>> : r \in Range(0, g), c \in Range(0, g)}

\* The keyword tests on the lowered clue, in the order of the code.
RegionOfLowered(c, g) ==
    IF Contains("no deeper", c) \/ Contains("northern edge", c)
        THEN ShallowSeaRegion(g)
    ELSE IF Contains("prime sentinel", c) \/ Contains("prime", c)
        THEN PrimeRegion(g)
    ELSE IF Contains("odd laugh", c) \/ Contains("parity", c)
        THEN ParityRegion(g)
    ELSE IF Contains("rank is strictly smaller", c) \/ Contains("bows to the column", c)
        THEN RankRegion(g)
    ELSE IF Contains("east of", c) /\ Contains("f", c)
        THEN EastRegion(g)
    ELSE IF Contains("second beat", c) \/ Contains("in threes", c)
            \/ Contains("chronomancer", c)
        THEN ChronoRegion(g)
    ELSE FallbackRegion(g)

\* clue = self.clue.lower() is computed once, then tested.
allowed_positions(clueText, g) ==
    CHOOSE r \in {RegionOfLowered(c, g) : c \in {lower(clueText)}} : TRUE

-----------------------------------------------------------------------------
(* Game._calculate_clues_based_characteristic_function,                    *)
(* src/game.py:384-414.  Player index i of the code is players[i + 1].     *)

\* Player(name, clue, weight=1): the fields the engine reads
Player(clueText, w) == [clue |-> clueText, weight |-> w]

\* Variant of TotalCells with + written for *.
TotalCellsSum(g) == g + g

\* total_cells = grid_size * grid_size
TotalCells(g) == g * g

\* Variant of IntersectPositions that pools the regions with |= from the
\* empty set.
RECURSIVE IntersectPositionsUnion(_, _, _)
IntersectPositionsUnion(S, ps, g) ==
    IF S = {} THEN {}
    ELSE LET idx == CHOOSE i \in S : TRUE
         IN  IntersectPositionsUnion(S \ {idx}, ps, g)
                 \cup allowed_positions(ps[idx + 1].clue, g)

\* intersect_positions = full grid; for idx in S: intersect_positions &= region
RECURSIVE IntersectPositions(_, _, _)
IntersectPositions(S, ps, g) ==
    IF S = {} THEN {<<r, c>> : r \in Range(0, g), c \in Range(0, g)}
    ELSE LET idx == CHOOSE i \in S : TRUE
         IN  IntersectPositions(S \ {idx}, ps, g)
                 \cap allowed_positions(ps[idx + 1].clue, g)

\* Variant of CoalitionValue that stores allowed_count itself.
CoalitionValueAllowedCount(S, ps, g) ==
    IF S = {} THEN 0
    ELSE Cardinality(IntersectPositions(S, ps, g))

\* v[S] = 0 for the empty coalition, else total_cells - allowed_count
CoalitionValue(S, ps, g) ==
    IF S = {} THEN 0
    ELSE TotalCells(g) - Cardinality(IntersectPositions(S, ps, g))

\* itertools.combinations(range(n), k), each tuple taken as a frozenset
Combinations(n, k) == {S \in SUBSET Range(0, n) : Cardinality(S) = k}

\* Variant of Coalitions with range(n) for range(n + 1).
CoalitionsProper(n) == UNION {Combinations(n, k) : k \in Range(0, n)}

\* for k in range(n + 1): for ... in combinations(range(n), k)
Coalitions(n) == UNION {Combinations(n, k) : k \in Range(0, n + 1)}

calculate_clues_based_characteristic_function(ps, g) ==
    IF Len(ps) = 0 THEN <<>>
    ELSE [S \in Coalitions(Len(ps)) |-> CoalitionValue(S, ps, g)]

-----------------------------------------------------------------------------
(* Python float: IEEE-754 binary64 with round-to-nearest-even, for the two  *)
(* float operations of shapley_sample, 1.0 / samples and x * factor         *)
(* (src/shapley.py:30-31).  A float is [neg, mant, exp] with the value      *)
(* (-1)^neg * mant * 2^exp, where mant is a natural number of at most 53    *)
(* bits written in limbs of 13 bits, least significant limb first.  Zero is *)
(* the empty numeral; every other mant is odd, so each value has one        *)
(* representation.  The exponent range of binary64 is not reached by the    *)
(* values of the model.                                                     *)

\* Bits of the significand of a Python float.
MantissaBits == 53

\* Bits of a limb, and the base of the numerals.
LimbBits == 13
Base == 8192

Pow2(n) == 2 ^ n

\* The numeral of a natural number.
RECURSIVE Limbs(_)
Limbs(k) == IF k = 0 THEN <<>> ELSE <<k % Base>> \o Limbs(k \div Base)

\* A numeral without its zero limbs at the high end.
StripTop(a) ==
    IF \A i \in 1..Len(a) : a[i] = 0 THEN <<>>
    ELSE SubSeq(a, 1, CHOOSE i \in 1..Len(a) :
                          a[i] # 0 /\ \A j \in (i + 1)..Len(a) : a[j] = 0)

\* a + b + carry on numerals
RECURSIVE BigAdd(_, _, _)
BigAdd(a, b, carry) ==
    IF a = <<>> /\ b = <<>> THEN Limbs(carry)
    ELSE LET x == IF a = <<>> THEN 0 ELSE Head(a)
             y == IF b = <<>> THEN 0 ELSE Head(b)
             s == x + y + carry
         IN  <<s % Base>> \o BigAdd(IF a = <<>> THEN a ELSE Tail(a),
                                    IF b = <<>> THEN b ELSE Tail(b),
                                    s \div Base)

\* a * x + carry for a numeral a and a natural number x below 2^18
RECURSIVE BigMulSmall(_, _, _)
BigMulSmall(a, x, carry) ==
    IF a = <<>> THEN Limbs(carry)
    ELSE LET s == Head(a) * x + carry
         IN  <<s % Base>> \o BigMulSmall(Tail(a), x, s \div Base)

\* a * k for a numeral a and a natural number k
RECURSIVE BigMul(_, _)
BigMul(a, k) ==
    IF k < Pow2(18) THEN BigMulSmall(a, k, 0)
    ELSE BigAdd(BigMulSmall(a, k % Base, 0),
                <<0>> \o BigMul(a, k \div Base), 0)

\* Number of bits of a numeral without zero limbs at the high end.
BitLength(a) ==
    IF a = <<>> THEN 0
    ELSE LimbBits * (Len(a) - 1)
             + (CHOOSE n \in 1..LimbBits :
                    Pow2(n - 1) <= a[Len(a)] /\ a[Len(a)] < Pow2(n))

\* Number of zero bits at the low end of a numeral other than zero.
LowZeros(a) ==
    LET i == CHOOSE k \in 1..Len(a) : a[k] # 0 /\ \A j \in 1..(k - 1) : a[j] = 0
    IN  LimbBits * (i - 1)
            + (CHOOSE n \in 0..(LimbBits - 1) :
                   a[i] % Pow2(n) = 0 /\ a[i] % Pow2(n + 1) # 0)

\* Bit i of a numeral, bit 0 the least significant.
BitAt(a, i) == (a[(i \div LimbBits) + 1] \div Pow2(i % LimbBits)) % 2

\* Some bit below bit d of a numeral is set.
AnyBitBelow(a, d) ==
    \/ \E j \in 1..(d \div LimbBits) : a[j] # 0
    \/ a[(d \div LimbBits) + 1] % Pow2(d % LimbBits) # 0

\* a >> d
ShiftRight(a, d) ==
    LET q == d \div LimbBits
        t == d % LimbBits
    IN  StripTop([j \in 1..(Len(a) - q) |->
                    (a[j + q] \div Pow2(t))
                        + (IF j + q < Len(a)
                           THEN (a[j + q + 1] % Pow2(t)) * Pow2(LimbBits - t)
                           ELSE 0)])

\* a << d
ShiftLeft(a, d) ==
    LET q == d \div LimbBits
        t == d % LimbBits
    IN  StripTop([j \in 1..q |-> 0] \o
                 [j \in 1..(Len(a) + 1) |->
                    ((IF j <= Len(a) THEN a[j] % Pow2(LimbBits - t) ELSE 0)
                        * Pow2(t))
                        + (IF j > 1 THEN a[j - 1] \div Pow2(LimbBits - t)
                           ELSE 0)])

\* The one representation of (-1)^neg * a * 2^e.
Canonical(neg, a, e) ==
    LET top == StripTop(a)
        z   == LowZeros(top)
    IN  IF top = <<>> THEN [neg |-> neg, mant |-> <<>>, exp |-> 0]
        ELSE [neg |-> neg, mant |-> ShiftRight(top, z), exp |-> e + z]

\* Variant of RoundNearestEven that truncates (round toward zero).
RoundTowardZero(neg, a, e) ==
    LET d == BitLength(a) - MantissaBits
    IN  IF d <= 0 THEN Canonical(neg, a, e)
        ELSE Canonical(neg, ShiftRight(a, d), e + d)

\* (-1)^neg * a * 2^e rounded to a float: round to nearest, ties to even.
\* The numeral a has no zero limb at its high end.
RoundNearestEven(neg, a, e) ==
    LET d == BitLength(a) - MantissaBits
    IN  IF d <= 0 THEN Canonical(neg, a, e)
        ELSE LET kept == ShiftRight(a, d)
                 up   == /\ BitAt(a, d - 1) = 1
                         /\ (AnyBitBelow(a, d - 1) \/ kept[1] % 2 = 1)
             IN  Canonical(neg,
                           IF up THEN BigAdd(kept, <<>>, 1) ELSE kept,
                           e + d)

\* float(k) for an int k below 2^31
FloatOfInt(k) == Canonical(k < 0, Limbs(IF k < 0 THEN -k ELSE k), 0)

\* Limbs of the quotient digits still to come in the long division 1 / s.
ReciprocalLimbs == 7

\* Long division 1 / s for 2 <= s < 2^18: r is the remainder so far and acc
\* the quotient so far, one limb a step; the last limb added tells whether
\* a remainder is left.
RECURSIVE ReciprocalDigits(_, _, _, _)
ReciprocalDigits(s, r, acc, left) ==
    IF left = 0 THEN <<IF r = 0 THEN 0 ELSE 1>> \o acc
    ELSE ReciprocalDigits(s, (r * Base) % s, <<(r * Base) \div s>> \o acc,
                          left - 1)

\* 1.0 / s for an int s other than 0
FloatReciprocal(s) ==
    LET m == IF s < 0 THEN -s ELSE s
    IN  IF m = 1 THEN FloatOfInt(s)
        ELSE RoundNearestEven(s < 0,
                 StripTop(ReciprocalDigits(m, 1, <<>>, ReciprocalLimbs)),
                 -(LimbBits * (ReciprocalLimbs + 1)))

\* x * f for a float x that holds the integer k and a float f
FloatTimes(k, f) ==
    LET neg == (k < 0) # f.neg
    IN  IF k = 0 \/ f.mant = <<>> THEN [neg |-> neg, mant |-> <<>>, exp |-> 0]
        ELSE RoundNearestEven(neg,
                 BigMul(f.mant, IF k < 0 THEN -k ELSE k), f.exp)

-----------------------------------------------------------------------------
(* shapley_sample, src/shapley.py:5-31.  Agent i of the code is position    *)
(* i + 1 of the lists.  The accumulator holds floats whose values are       *)
(* integers far below 2^53, so `+=` is exact and phi is kept as integers.   *)

\* The weights argument: None, or a list.
NoWeights == [given |-> FALSE, list |-> <<>>]
GivenWeights(w) == [given |-> TRUE, list |-> w]

\* The caller holds no payouts of an earlier call.
NoPrevious == [made |-> FALSE, payouts |-> <<>>]

\* [1] * n
Ones(n) == [i \in 1..n |-> 1]

\* if weights is None: weights = [1] * n_players
EffectiveWeights(w, n) == IF w.given THEN w.list ELSE Ones(n)

\* Variant of InitPhi with one slot more than agents.
InitPhiExtra(n) == [i \in 1..(n + 1) |-> 0]

\* [0.0] * n_players
InitPhi(n) == [i \in 1..n |-> 0]

\* Variant of VGet whose default is 1.
VGetDefaultOne(vmap, S) == IF S \in DOMAIN vmap THEN vmap[S] ELSE 1

\* v.get(S, 0)
VGet(vmap, S) == IF S \in DOMAIN vmap THEN vmap[S] ELSE 0

\* Variant of Marginal that leaves the weight out.
MarginalUnweighted(vmap, S, i, w) == VGet(vmap, S \cup {i}) - VGet(vmap, S)

\* Variant of Marginal that takes the weight of agent 0.
MarginalFirstWeight(vmap, S, i, w) ==
    (VGet(vmap, S \cup {i}) - VGet(vmap, S)) * w[1]

\* (v.get(S | {i}, 0) - v.get(S, 0)) * weights[i]
Marginal(vmap, S, i, w) ==
    (VGet(vmap, S \cup {i}) - VGet(vmap, S)) * w[i + 1]

\* Variant of Grow that leaves S as it is.
GrowNot(S, i) == S

\* S |= {i}
Grow(S, i) == S \cup {i}

\* for i in order: ... from position pos on, with coalition S built so far.
\* weights[i] raises IndexError for i >= len(weights), before phi[i] changes.
RECURSIVE InnerLoop(_, _, _, _, _, _)
InnerLoop(vmap, w, order, pos, S, acc) ==
    IF pos > Len(order) THEN [phi |-> acc, raised |-> FALSE]
    ELSE LET i == order[pos]
         IN  IF i + 1 > Len(w) THEN [phi |-> acc, raised |-> TRUE]
             ELSE InnerLoop(vmap, w, order, pos + 1, Grow(S, i),
                            [acc EXCEPT ![i + 1] = @ + Marginal(vmap, S, i, w)])

\* The orders random.shuffle can leave in `order`: every permutation of
\* range(n), chosen by the state of the process-wide generator.
Shuffles(n) ==
    {p \in [1..n -> Range(0, n)] : \A a, b \in 1..n : a # b => p[a] # p[b]}

\* [x * factor for x in phi]
ScaleBy(acc, factor) == [i \in DOMAIN acc |-> FloatTimes(acc[i], factor)]

\* [x * factor for x in phi] with factor = 1.0 / samples
Scale(acc, s) == ScaleBy(acc, FloatReciprocal(s))

\* v with every coalition of range(n) that it lacks mapped to 0.
Completed(vmap, n) ==
    [S \in SUBSET Range(0, n) |-> IF S \in DOMAIN vmap THEN vmap[S] ELSE 0]

-----------------------------------------------------------------------------
(* Inputs.                                                                 *)

\* Clue texts compiled by the clue-compiler specification.
ClueTexts ==
    { "",
      "I like turtles",
      "The treasure's row is 3",
      "The treasure's column is B",
      "Dig no deeper than the fourth row",
      "It hugs the Northern Edge",
      "Follow the Prime Sentinel",
      "PRIME",
      "An odd laugh echoes",
      "Parity",
      "Its rank is strictly smaller",
      "The row bows to the column",
      "East of F",
      "east of C",
      "On the second beat",
      "Count in threes",
      "Ask the Chronomancer",
      "parity of a prime",
      "Chronomancer, no deeper",
      "east of F in threes",
      "row is 2, a prime place",
      "column is C with parity" }

\* Clue texts of the players handed to the builder.
BuilderClues ==
    { "", "prime", "parity", "east of f", "in threes", "no deeper" }

PlayerLists ==
    UNION {[1..n -> {Player(c, 1) : c \in BuilderClues}] : n \in 0..MaxPlayers}

\* MAX_PLAYERS of the game, and player lists of up to one player more.
MAX_PLAYERS == 6
CrowdClues == { "", "parity" }
CrowdLists ==
    UNION {[1..n -> {Player(c, 1) : c \in CrowdClues}] :
              n \in 0..(MAX_PLAYERS + 1)}

\* Clue texts, weights and grid size of the players whose built mapping is
\* handed to shapley_sample: on a 2 x 2 grid the regions are the whole grid,
\* the one cell (0, 1), and the two cells (0, 1), (1, 0).
EndGameClues == { "", "rank is strictly smaller", "parity" }
WeightValues == {1, 5}
EndGameGrids == {2}
EndGamePlayers(n) ==
    [1..n -> {Player(c, w) : c \in EndGameClues, w \in WeightValues}]

\* Coins a coalition ledger can hold for one coalition.
CoinValues == {0, 3}

\* Partial mappings handed to shapley_sample directly: a ledger with at most
\* one coalition of range(n) entered.
LedgerMaps(n) ==
    UNION {[D -> CoinValues] :
              D \in {E \in SUBSET (SUBSET Range(0, n) \ {{}}) :
                         Cardinality(E) <= 1}}

\* Weights handed to shapley_sample directly: None, unit weights, one heavy
\* agent, a list one too short and a list one too long.
DirectWeights(n) ==
    {NoWeights, GivenWeights(Ones(n)), GivenWeights(Ones(n) \o <<5>>)}
        \cup (IF n = 0 THEN {}
              ELSE {GivenWeights([i \in 1..n |-> IF i = n THEN 5 ELSE 1]),
                    GivenWeights(Ones(n - 1))})

\* Sample counts: the short runs include 0 and a negative count.
SampleCounts(long) == IF long THEN {LargeSamples} ELSE (-1) .. MaxSamples

-----------------------------------------------------------------------------
(* Specification of the clue compiler: one call of allowed_positions.      *)

CompileIdle ==
    /\ clue \in ClueTexts
    /\ grid \in 1..MaxGrid
    /\ region = {}
    /\ compiled = FALSE

BuildIdle ==
    /\ players \in PlayerLists
    /\ grid_size \in 1..MaxGrid
    /\ values = <<>>
    /\ built = FALSE

\* Game states, src/game.py:36-40.
SETUP == "SETUP"
AWAIT_COMMIT == "AWAIT_COMMIT"
AWAIT_GUESS == "AWAIT_GUESS"
REVEAL == "REVEAL"
END == "END"

MIN_PLAYERS == 3

\* self.grid_size = 10
DefaultGridSize == 10

\* samples=10000 of the call in Game._end_game
EndGameSamples == 10000

\* Game.payouts: None, or a list of floats.
NoPayouts == [given |-> FALSE, list |-> <<>>]
SomePayouts(l) == [given |-> TRUE, list |-> l]

\* Game.allowed_guesses: None, or a set of cells.
NoGuesses == [given |-> FALSE, cells |-> {}]
SomeGuesses(cells) == [given |-> TRUE, cells |-> cells]

\* Game.last_guess_result: None.
NoResult == <<>>

\* Treasure(value, claimed=False)
Treasure(value, claimed) == [value |-> value, claimed |-> claimed]

\* make_empty_grid: no cell holds a treasure.
EmptyGrid == [cell \in {} |-> Treasure(0, FALSE)]

\* self.ledger = {}
EmptyLedger == [S \in {} |-> 0]

\* No Start Game since the construction.
NoStart ==
    [made |-> FALSE, names |-> 0, distinct |-> TRUE, clues |-> 0,
     board |-> FALSE]

\* The fields of Game that Game.__init__ sets, as it sets them.
Constructed ==
    /\ state = SETUP
    /\ name_inputs = MIN_PLAYERS
    /\ setup_error_message = ""
    /\ treasure_grid = EmptyGrid
    /\ ledger = EmptyLedger
    /\ revealed = <<>>
    /\ commits = <<>>
    /\ current_coalition = {}
    /\ coalition_locked = FALSE
    /\ round = 0
    /\ game_payouts = NoPayouts
    /\ allowed_guesses = NoGuesses
    /\ last_guess_result = NoResult
    /\ last_start = NoStart

\* No event reaches the game.
GameIdle == Constructed

\* No call of shapley_sample is made.
ShapleyIdle ==
    /\ v = <<>>
    /\ n_players = 0
    /\ weights = NoWeights
    /\ samples = 1
    /\ drawn = 0
    /\ phi = <<>>
    /\ outcome = "idle"
    /\ payouts = <<>>
    /\ phi_unit = <<>>
    /\ phi_full = <<>>
    /\ previous = NoPrevious

InitCompile ==
    /\ CompileIdle
    /\ players = <<>>
    /\ grid_size = 1
    /\ values = <<>>
    /\ built = FALSE
    /\ ShapleyIdle
    /\ GameIdle

Compile ==
    /\ ~compiled
    /\ region' = allowed_positions(clue, grid)
    /\ compiled' = TRUE
    /\ UNCHANGED <<clue, grid, buildVars, shapleyVars, gameVars>>

NextCompile == Compile

SpecCompile == InitCompile /\ [][NextCompile]_vars

-----------------------------------------------------------------------------
(* Specification of the builder: one call on a player list and grid size.  *)

InitBuild ==
    /\ BuildIdle
    /\ clue = ""
    /\ grid = 1
    /\ region = {}
    /\ compiled = FALSE
    /\ ShapleyIdle
    /\ GameIdle

Build ==
    /\ ~built
    /\ values' = calculate_clues_based_characteristic_function(players, grid_size)
    /\ built' = TRUE
    /\ UNCHANGED <<players, grid_size, compileVars, shapleyVars, gameVars>>

NextBuild == Build

SpecBuild == InitBuild /\ [][NextBuild]_vars

-----------------------------------------------------------------------------
(* Specification of the builder on a crowd: one call on a list of up to     *)
(* MAX_PLAYERS + 1 players and a small grid.                                *)

InitBuildCrowd ==
    /\ players \in CrowdLists
    /\ grid_size \in 1..2
    /\ values = <<>>
    /\ built = FALSE
    /\ clue = ""
    /\ grid = 1
    /\ region = {}
    /\ compiled = FALSE
    /\ ShapleyIdle
    /\ GameIdle

SpecBuildCrowd == InitBuildCrowd /\ [][NextBuild]_vars

-----------------------------------------------------------------------------
(* Specification of the estimator: one call of shapley_sample, stepped one  *)
(* sampled permutation at a time.  The mapping is either the one the        *)
(* builder made for a list of players (Game._end_game, src/game.py:356-364) *)
(* or a coalition ledger handed over directly.  Runs of LargeSamples        *)
(* samples are made for at most two agents.                                 *)

\* The call has been entered: weights defaulted, phi and order initialised.
Entered ==
    /\ drawn = 0
    /\ phi = InitPhi(n_players)
    /\ outcome = "running"
    /\ payouts = <<>>
    /\ phi_unit = InitPhi(n_players)
    /\ phi_full = InitPhi(n_players)
    /\ previous = NoPrevious

\* values = self._calculate_clues_based_characteristic_function()
\* weights = [p.weight for p in self.players]
\* shapley_sample(values, len(self.players), weights, samples=...)
EndGameCall(n) ==
    /\ players \in EndGamePlayers(n)
    /\ grid_size \in EndGameGrids
    /\ values = calculate_clues_based_characteristic_function(players, grid_size)
    /\ built = TRUE
    /\ v = values
    /\ weights = GivenWeights([i \in 1..n |-> players[i].weight])

\* shapley_sample(ledger, n, weights, samples)
DirectCall(n) ==
    /\ players = <<>>
    /\ grid_size = 1
    /\ values = <<>>
    /\ built = FALSE
    /\ v \in LedgerMaps(n)
    /\ weights \in DirectWeights(n)

InitShapley ==
    /\ clue = ""
    /\ grid = 1
    /\ region = {}
    /\ compiled = FALSE
    /\ GameIdle
    /\ \E n \in 0..MaxAgents, long \in BOOLEAN :
          /\ long => n <= 2
          /\ n_players = n
          /\ samples \in SampleCounts(long)
          /\ EndGameCall(n) \/ DirectCall(n)
    /\ Entered

\* One iteration of `for _ in range(samples)`: random.shuffle(order), then
\* the inner loop over the order.  The two companion accumulators take the
\* same order.
Sample ==
    /\ outcome = "running"
    /\ drawn < samples
    /\ \E order \in Shuffles(n_players) :
          LET w    == EffectiveWeights(weights, n_players)
              run  == InnerLoop(v, w, order, 1, {}, phi)
              unit == InnerLoop(v, Ones(n_players), order, 1, {}, phi_unit)
              full == InnerLoop(Completed(v, n_players), w, order, 1, {},
                                phi_full)
          IN  /\ phi' = run.phi
              /\ outcome' = IF run.raised THEN "IndexError" ELSE "running"
              /\ drawn' = IF run.raised THEN drawn ELSE drawn + 1
              /\ phi_unit' = unit.phi
              /\ phi_full' = full.phi
    /\ UNCHANGED <<compileVars, buildVars, callVars, payouts, previous,
                   gameVars>>

\* factor = 1.0 / samples; return [x * factor for x in phi]
Return ==
    /\ outcome = "running"
    /\ drawn >= samples
    /\ IF samples = 0
       THEN outcome' = "ZeroDivisionError" /\ payouts' = payouts
       ELSE outcome' = "returned" /\ payouts' = Scale(phi, samples)
    /\ UNCHANGED <<compileVars, buildVars, callVars, drawn, phi, phi_unit,
                   phi_full, previous, gameVars>>

NextShapley == Sample \/ Return

SpecShapley == InitShapley /\ [][NextShapley]_vars

-----------------------------------------------------------------------------
(* Specification of a repeated call: the caller keeps the payouts of a      *)
(* short call and makes the same call again with identical arguments.       *)

InitRepeat == InitShapley /\ samples <= MaxSamples

\* first = shapley_sample(v, n, weights, samples); the same call is entered
\* once more.
CallAgain ==
    /\ outcome = "returned"
    /\ ~previous.made
    /\ previous' = [made |-> TRUE, payouts |-> payouts]
    /\ drawn' = 0
    /\ phi' = InitPhi(n_players)
    /\ phi_unit' = InitPhi(n_players)
    /\ phi_full' = InitPhi(n_players)
    /\ outcome' = "running"
    /\ payouts' = <<>>
    /\ UNCHANGED <<compileVars, buildVars, callVars, gameVars>>

NextRepeat == Sample \/ Return \/ CallAgain

SpecRepeat == InitRepeat /\ [][NextRepeat]_vars

-----------------------------------------------------------------------------
(* The game, src/game.py.  One action per event that handle_event           *)
(* (src/game.py:473-484) hands to a widget; the widget calls the bound      *)
(* method of Game.  An event that no widget of the current state takes      *)
(* leaves the game as it is.  The texts typed into the name boxes, the      *)
(* clues file and the board file are read when Start Game is pressed.       *)

\* Bounds of the game: the name boxes on screen (the code allows
\* MAX_PLAYERS), and the round from which on no guess is made that leaves
\* the game running.
MaxBoxes == 4
MaxRound == 2

\* str.strip() on texts whose only whitespace is the space
RECURSIVE StripLeft(_)
StripLeft(t) ==
    IF Len(t) > 0 /\ SubSeq(t, 1, 1) = " "
    THEN StripLeft(SubSeq(t, 2, Len(t))) ELSE t

RECURSIVE StripRight(_)
StripRight(t) ==
    IF Len(t) > 0 /\ SubSeq(t, Len(t), Len(t)) = " "
    THEN StripRight(SubSeq(t, 1, Len(t) - 1)) ELSE t

strip(t) == StripRight(StripLeft(t))

\* str(n) of a natural number, as an f-string writes it
RECURSIVE Str(_)
Str(n) ==
    IF n < 10 THEN SubSeq("0123456789", n + 1, n + 1)
    ELSE Str(n \div 10) \o SubSeq("0123456789", (n % 10) + 1, (n % 10) + 1)

\* `if name:` of a stripped text
NonEmptyName(name) == name # ""

\* The names read from the boxes: stripped, the empty ones dropped.
entered_names(texts) ==
    SelectSeq([i \in DOMAIN texts |-> strip(texts[i])], NonEmptyName)

\* Variant of HasDuplicates that finds none.
HasDuplicatesNever(names) == FALSE

\* len(entered_names) != len(set(entered_names))
HasDuplicates(names) ==
    Len(names) # Cardinality({names[i] : i \in DOMAIN names})

\* What the boxes can hold when Start Game is pressed: each box nothing
\* or a name of its own, and the second box the first box's name between
\* spaces.
BoxNames == <<"ann", "bob", "cy", "dee", "eve", "fay">>
BoxText(i, filled, again) ==
    IF i = 2 /\ again THEN " ann "
    ELSE IF filled THEN BoxNames[i] ELSE ""
TypedTexts(k) ==
    {[i \in 1..k |-> BoxText(i, filled[i], again)] :
        filled \in [1..k -> BOOLEAN], again \in BOOLEAN}

\* A Player made by load_clues from one entry of the players array: the
\* clue, the weight, and whether the JSON value of the weight is a number.
LoadedPlayer(clueText, w, isNumber) ==
    [clue |-> clueText, weight |-> w, numeric |-> isNumber]

\* clues.json / demo_clues.json: absent, unreadable, or a players array.
NoCluesFile == [exists |-> FALSE, error |-> "", players |-> <<>>]
BadCluesFile == [exists |-> TRUE, error |-> "Expecting value", players |-> <<>>]
CluesFile(ps) == [exists |-> TRUE, error |-> "", players |-> ps]

DemoClues ==
    CluesFile(<<LoadedPlayer("No deeper", 1, TRUE),
                LoadedPlayer("Prime", 2, TRUE),
                LoadedPlayer("Turtles", 1, TRUE),
                LoadedPlayer("East of F", 1, TRUE)>>)

\* Three players, one of them with "weight": "2".
TextWeightClues ==
    CluesFile(<<LoadedPlayer("Prime", 1, TRUE),
                LoadedPlayer("", 2, FALSE),
                LoadedPlayer("No deeper", 1, TRUE)>>)

CluesFiles == {NoCluesFile, BadCluesFile, DemoClues, TextWeightClues}

\* board.json: absent, unreadable, or a treasures array.
NoBoardFile == [exists |-> FALSE, error |-> "", treasures |-> <<>>]
BadBoardFile == [exists |-> TRUE, error |-> "Expecting value", treasures |-> <<>>]
BoardFile(ts) == [exists |-> TRUE, error |-> "", treasures |-> ts]
TreasureEntry(r, c, value) == [row |-> r, col |-> c, value |-> value]

BoardFiles ==
    {NoBoardFile, BadBoardFile, BoardFile(<<>>),
     BoardFile(<<TreasureEntry(0, 2, 20), TreasureEntry(5, 3, 80)>>),
     BoardFile(<<TreasureEntry(10, 0, 20)>>)}

\* The draws of random.randrange(size) twice and of
\* random.choice([20, 40, 60, 80]) that are followed.
DrawnCells == {<<0, 2>>}
DrawnValues == {20}

\* A list index i on a list of length size: in range or IndexError.
IndexInRange(i, size) == -size <= i /\ i < size
PyIndex(i, size) == IF i < 0 THEN i + size ELSE i

\* load_board raises: the JSON does not parse, or the first treasure lies
\* off the grid.
load_board_error(bf, size) ==
    IF ~bf.exists THEN ""
    ELSE IF bf.error # "" THEN bf.error
    ELSE IF bf.treasures = <<>> THEN ""
    ELSE IF ~IndexInRange(bf.treasures[1].row, size)
        THEN "list index out of range"
    ELSE IF ~IndexInRange(bf.treasures[1].col, size)
        THEN "list assignment index out of range"
    ELSE ""

\* The grids load_board can return: the first treasure of the file only,
\* or one treasure at random when there is no file.
load_board(bf, size) ==
    IF bf.exists
    THEN IF bf.treasures = <<>> THEN {EmptyGrid}
         ELSE {[cell \in {<<PyIndex(bf.treasures[1].row, size),
                            PyIndex(bf.treasures[1].col, size)>>}
                  |-> Treasure(bf.treasures[1].value, FALSE)]}
    ELSE {[cell \in {rc} |-> Treasure(value, FALSE)] :
             rc \in DrawnCells \cap (Range(0, size) \X Range(0, size)),
             value \in DrawnValues \cap {20, 40, 60, 80}}

\* [False] * n
NoCommits(n) == [i \in 1..n |-> FALSE]

\* The variables no method of Game writes.
outsideVars == <<compileVars, shapleyVars, grid_size>>

\* The number of players the clues file defines, -1 if it cannot be
\* loaded.
CluesDefined(cf) ==
    IF cf.exists /\ cf.error = "" THEN Len(cf.players) ELSE -1

\* What a Start Game reads: how many boxes hold a name, whether the names
\* are pairwise distinct, the players of the clues file, and whether the
\* board loads.
StartRead(texts, cf, bf, size) ==
    [made |-> TRUE,
     names |-> Cardinality({i \in DOMAIN texts : strip(texts[i]) # ""}),
     distinct |-> \A i, j \in DOMAIN texts :
                     (i # j /\ strip(texts[i]) # "")
                         => strip(texts[i]) # strip(texts[j]),
     clues |-> CluesDefined(cf),
     board |-> load_board_error(bf, size) = ""]

\* A failed start: the message is set and the method returns.
StartFails(message, ps) ==
    /\ setup_error_message' = message
    /\ players' = ps
    /\ UNCHANGED <<state, name_inputs, treasure_grid, ledger, revealed,
                   commits, current_coalition, coalition_locked, round,
                   game_payouts, allowed_guesses, last_guess_result,
                   values, built, outsideVars>>

\* _start_game_action with the given box texts and files
start_game_action(texts, cf, bf) ==
    LET names == entered_names(texts)
        num_players == Len(names)
    IN  IF ~(MIN_PLAYERS <= num_players /\ num_players <= MAX_PLAYERS)
        THEN StartFails("Error: Must have between " \o Str(MIN_PLAYERS)
                        \o " and " \o Str(MAX_PLAYERS)
                        \o " players with names entered. Found "
                        \o Str(num_players) \o ".", players)
        ELSE IF HasDuplicates(names)
        THEN StartFails("Error: Player names must be unique.", players)
        ELSE IF ~cf.exists
        THEN StartFails("Error: clues.json or demo_clues.json not found!",
                        players)
        ELSE IF cf.error # ""
        THEN StartFails("Error loading clues: " \o cf.error, <<>>)
        ELSE IF Len(cf.players) < num_players
        THEN StartFails("Error: Clues file only defines "
                        \o Str(Len(cf.players)) \o " players, but "
                        \o Str(num_players) \o " were entered.", players)
        ELSE IF load_board_error(bf, grid_size) # ""
        THEN StartFails("Error loading board.json: "
                        \o load_board_error(bf, grid_size), <<>>)
        ELSE /\ setup_error_message' = ""
             /\ players' = SubSeq(cf.players, 1, num_players)
             /\ treasure_grid' \in load_board(bf, grid_size)
             /\ ledger' = EmptyLedger
             /\ revealed' = <<>>
             /\ commits' = NoCommits(num_players)
             /\ round' = 1
             /\ current_coalition' = {}
             /\ coalition_locked' = FALSE
             /\ last_guess_result' = NoResult
             /\ allowed_guesses' = NoGuesses
             /\ state' = AWAIT_COMMIT
             /\ UNCHANGED <<name_inputs, game_payouts, values, built,
                            outsideVars>>

\* _add_player_action
add_player_action ==
    /\ IF name_inputs < MAX_PLAYERS
       THEN name_inputs' = name_inputs + 1 /\ UNCHANGED setup_error_message
       ELSE /\ setup_error_message' = "Maximum " \o Str(MAX_PLAYERS)
                                       \o " players allowed."
            /\ UNCHANGED name_inputs
    /\ UNCHANGED <<state, players, treasure_grid, ledger, revealed, commits,
                   current_coalition, coalition_locked, round, game_payouts,
                   allowed_guesses, last_guess_result, values, built,
                   outsideVars, last_start>>

\* Variant of handle_commit_toggle that flips every player's flag.
handle_commit_toggle_all(i) ==
    IF state = AWAIT_COMMIT
    THEN /\ commits' = [j \in DOMAIN commits |-> ~commits[j]]
         /\ UNCHANGED <<state, name_inputs, setup_error_message, players,
                        treasure_grid, ledger, revealed, current_coalition,
                        coalition_locked, round, game_payouts,
                        allowed_guesses, last_guess_result, values, built,
                        outsideVars, last_start>>
    ELSE UNCHANGED vars

\* _handle_commit_toggle(player_index)
handle_commit_toggle(i) ==
    IF state = AWAIT_COMMIT
    THEN /\ commits' = [commits EXCEPT ![i + 1] = ~@]
         /\ UNCHANGED <<state, name_inputs, setup_error_message, players,
                        treasure_grid, ledger, revealed, current_coalition,
                        coalition_locked, round, game_payouts,
                        allowed_guesses, last_guess_result, values, built,
                        outsideVars, last_start>>
    ELSE UNCHANGED vars

\* {i for i, committed in enumerate(self.commits) if committed}
committed_indices(c) == {i \in Range(0, Len(c)) : c[i + 1]}

\* Variant of GuessRegion: the cells common to the members' regions.
GuessRegionCommon(ps, g, members) ==
    {cell \in Range(0, g) \X Range(0, g) :
        \A idx \in members : cell \in allowed_positions(ps[idx + 1].clue, g)}

\* allowed |= player_positions, for every member of the coalition
GuessRegion(ps, g, members) ==
    UNION {allowed_positions(ps[idx + 1].clue, g) : idx \in members}

\* allowed or None
OrNone(cells) == IF cells = {} THEN NoGuesses ELSE SomeGuesses(cells)

\* Variant of lock_coalition_action that locks the empty coalition too.
lock_coalition_action_empty ==
    IF state # AWAIT_COMMIT THEN UNCHANGED vars
    ELSE /\ current_coalition' = committed_indices(commits)
         /\ coalition_locked' = TRUE
         /\ allowed_guesses' =
                OrNone(GuessRegion(players, grid_size, committed_indices(commits)))
         /\ state' = AWAIT_GUESS
         /\ UNCHANGED <<name_inputs, setup_error_message, players,
                        treasure_grid, ledger, revealed, commits, round,
                        game_payouts, last_guess_result, values, built,
                        outsideVars, last_start>>

\* _lock_coalition_action
lock_coalition_action ==
    IF state # AWAIT_COMMIT THEN UNCHANGED vars
    ELSE IF committed_indices(commits) = {} THEN UNCHANGED vars
    ELSE /\ current_coalition' = committed_indices(commits)
         /\ coalition_locked' = TRUE
         /\ allowed_guesses' =
                OrNone(GuessRegion(players, grid_size, committed_indices(commits)))
         /\ state' = AWAIT_GUESS
         /\ UNCHANGED <<name_inputs, setup_error_message, players,
                        treasure_grid, ledger, revealed, commits, round,
                        game_payouts, last_guess_result, values, built,
                        outsideVars, last_start>>

\* The orders of the agents that the draws of random.shuffle are taken
\* from: range(n) and its reverse.
DrawnOrders(n) == {[i \in 1..n |-> i - 1], [i \in 1..n |-> n - i]}

\* What one pass of the inner loop over the order adds to the accumulators.
OneSample(vmap, w, order) ==
    InnerLoop(vmap, w, order, 1, {}, InitPhi(Len(order))).phi

\* The accumulators after s samples that all drew the same order.
Accumulated(vmap, w, n, s) ==
    {[i \in 1..n |-> s * once[i]] :
        once \in {OneSample(vmap, w, a) : a \in DrawnOrders(n)}}

\* factor = 1.0 / samples of the call in _end_game
EndGameFactor == FloatReciprocal(EndGameSamples)

\* weights[i] of a weight that is no number: the product or the `+=` on
\* the float raises TypeError in the first sample, which touches every
\* agent.
EstimatorRaises(ps) == \E i \in DOMAIN ps : ~ps[i].numeric

\* Variant of EstimatorPayouts that returns the accumulators of the agents
\* before the last.
EstimatorPayoutsShort(vmap, ps) ==
    {SomePayouts(SubSeq(ScaleBy(acc, EndGameFactor), 1, Len(ps) - 1)) :
        acc \in Accumulated(vmap, [i \in DOMAIN ps |-> ps[i].weight],
                            Len(ps), EndGameSamples)}

\* shapley_sample(values, len(self.players), weights, samples=10000)
EstimatorPayouts(vmap, ps) ==
    {SomePayouts(ScaleBy(acc, EndGameFactor)) :
        acc \in Accumulated(vmap, [i \in DOMAIN ps |-> ps[i].weight],
                            Len(ps), EndGameSamples)}

\* if self.state == END: return
AlreadyEnded(st) == st = END

\* _end_game: the variables it writes
end_game ==
    IF AlreadyEnded(state)
    THEN UNCHANGED <<state, values, built, game_payouts>>
    ELSE /\ state' = END
         /\ values' = calculate_clues_based_characteristic_function(
                          players, grid_size)
         /\ built' = TRUE
         /\ IF EstimatorRaises(players)
            THEN game_payouts' = NoPayouts
            ELSE game_payouts' \in EstimatorPayouts(values', players)

\* _reset_for_next_round: the variables it writes
reset_for_next_round ==
    /\ round' = round + 1
    /\ current_coalition' = {}
    /\ coalition_locked' = FALSE
    /\ commits' = NoCommits(Len(players))
    /\ state' = AWAIT_COMMIT
    /\ allowed_guesses' = NoGuesses

\* _confirm_end_game
confirm_end_game ==
    /\ end_game
    /\ UNCHANGED <<name_inputs, setup_error_message, players, treasure_grid,
                   ledger, revealed, commits, current_coalition,
                   coalition_locked, round, allowed_guesses,
                   last_guess_result, outsideVars, last_start>>

\* not (self.allowed_guesses is not None and (r, c) not in allowed_guesses)
Permitted(guesses, cell) == ~(guesses.given /\ cell \notin guesses.cells)

\* bool(cell and not cell.claimed)
IsHit(g, cell) == cell \in DOMAIN g /\ ~g[cell].claimed

\* Variant of Credit that credits every coalition of the ledger.
CreditEvery(l, S, coins) ==
    [T \in DOMAIN l \cup {S} |-> (IF T \in DOMAIN l THEN l[T] ELSE 0) + coins]

\* self.ledger[S] = self.ledger.get(S, 0) + coins
Credit(l, S, coins) ==
    [T \in DOMAIN l \cup {S} |->
        IF T = S THEN (IF S \in DOMAIN l THEN l[S] ELSE 0) + coins ELSE l[T]]

\* Variant of AllClaimed that holds once any treasure is claimed.
AnyClaimed(g) == \E cell \in DOMAIN g : g[cell].claimed

\* all(t is None or t.claimed for row in self.grid for t in row)
AllClaimed(g) == \A cell \in DOMAIN g : g[cell].claimed

\* _handle_grid_click(r, c)
handle_grid_click(r, c) ==
    IF state # AWAIT_GUESS THEN UNCHANGED vars
    ELSE IF ~coalition_locked THEN UNCHANGED vars
    ELSE IF ~Permitted(allowed_guesses, <<r, c>>) THEN UNCHANGED vars
    ELSE LET hit == IsHit(treasure_grid, <<r, c>>)
             coins == IF hit THEN treasure_grid[<<r, c>>].value ELSE 0
         IN  /\ treasure_grid' =
                    IF hit
                    THEN [treasure_grid EXCEPT ![<<r, c>>].claimed = TRUE]
                    ELSE treasure_grid
             /\ ledger' = Credit(ledger, current_coalition, coins)
             /\ revealed' = Append(revealed, <<r, c, hit>>)
             /\ last_guess_result' = <<r, c, hit, coins>>
             /\ IF AllClaimed(treasure_grid')
                THEN /\ end_game
                     /\ UNCHANGED <<round, current_coalition,
                                    coalition_locked, commits,
                                    allowed_guesses>>
                ELSE /\ round < MaxRound
                     /\ reset_for_next_round
                     /\ UNCHANGED <<values, built, game_payouts>>
             /\ UNCHANGED <<name_inputs, setup_error_message, players,
                            outsideVars, last_start>>

\* Variant of restart_game that keeps the payouts of the game that ended.
restart_game_keep_payouts ==
    /\ state' = SETUP
    /\ name_inputs' = MIN_PLAYERS
    /\ setup_error_message' = ""
    /\ treasure_grid' = EmptyGrid
    /\ ledger' = EmptyLedger
    /\ revealed' = <<>>
    /\ commits' = <<>>
    /\ current_coalition' = {}
    /\ coalition_locked' = FALSE
    /\ round' = 0
    /\ allowed_guesses' = NoGuesses
    /\ last_guess_result' = NoResult
    /\ last_start' = NoStart
    /\ players' = <<>>
    /\ values' = <<>>
    /\ built' = FALSE
    /\ UNCHANGED <<game_payouts, outsideVars>>

\* _restart_game: self.__init__()
restart_game ==
    /\ state' = SETUP
    /\ name_inputs' = MIN_PLAYERS
    /\ setup_error_message' = ""
    /\ treasure_grid' = EmptyGrid
    /\ ledger' = EmptyLedger
    /\ revealed' = <<>>
    /\ commits' = <<>>
    /\ current_coalition' = {}
    /\ coalition_locked' = FALSE
    /\ round' = 0
    /\ game_payouts' = NoPayouts
    /\ allowed_guesses' = NoGuesses
    /\ last_guess_result' = NoResult
    /\ last_start' = NoStart
    /\ players' = <<>>
    /\ values' = <<>>
    /\ built' = FALSE
    /\ UNCHANGED outsideVars

\* The cells a click on the grid view is followed on.
ProbeCells == {<<0, 2>>, <<5, 3>>}

\* Add Player: the button takes the event in SETUP while fewer than
\* MAX_PLAYERS boxes are shown (src/game.py:513-514).
AddPlayerClick ==
    IF state = SETUP /\ name_inputs < MAX_PLAYERS
    THEN name_inputs < MaxBoxes /\ add_player_action
    ELSE UNCHANGED vars

\* Start Game, or Enter in a name box (src/game.py:516-532).
StartGameClick ==
    IF state = SETUP
    THEN \E texts \in TypedTexts(name_inputs), cf \in CluesFiles,
            bf \in BoardFiles :
                /\ start_game_action(texts, cf, bf)
                /\ last_start' = StartRead(texts, cf, bf, grid_size)
    ELSE UNCHANGED vars

\* A click on the commit toggle of player i (src/game.py:535-536,
\* src/ui.py:296-344).
CommitToggleClick ==
    \E i \in Range(0, Len(players)) :
        IF state = AWAIT_COMMIT THEN handle_commit_toggle(i)
        ELSE UNCHANGED vars

\* Lock Coalition (src/game.py:537).
LockCoalitionClick ==
    IF state = AWAIT_COMMIT THEN lock_coalition_action ELSE UNCHANGED vars

\* A click on a cell of the grid view (src/game.py:541-542,
\* src/ui.py:179-187).
GridClick ==
    \E cell \in ProbeCells \cap (Range(0, grid_size) \X Range(0, grid_size)) :
        IF state = AWAIT_GUESS THEN handle_grid_click(cell[1], cell[2])
        ELSE UNCHANGED vars

\* End Game (src/game.py:538, 543).
EndGameClick ==
    IF state \in {AWAIT_COMMIT, AWAIT_GUESS} THEN confirm_end_game
    ELSE UNCHANGED vars

\* Export Results (src/game.py:550-551): _export_results writes the CSV
\* file and no field of Game.
ExportClick == UNCHANGED vars

\* Variant of RestartClick in which the button takes the event in every
\* state.
RestartClickAnywhere == restart_game

\* Restart Game (src/game.py:552-553); the button exists once _end_game
\* has run.
RestartClick ==
    IF state = END THEN restart_game ELSE UNCHANGED vars

Init ==
    /\ Constructed
    /\ players = <<>>
    /\ grid_size = DefaultGridSize
    /\ values = <<>>
    /\ built = FALSE
    /\ clue = ""
    /\ grid = 1
    /\ region = {}
    /\ compiled = FALSE
    /\ ShapleyIdle

Next ==
    \/ AddPlayerClick
    \/ StartGameClick
    \/ CommitToggleClick
    \/ LockCoalitionClick
    \/ GridClick
    \/ EndGameClick
    \/ ExportClick
    \/ RestartClick

Spec == Init /\ [][Next]_vars

-----------------------------------------------------------------------------
(* Properties of the characteristic-function builder (under SpecBuild).    *)

\* The cells of a g x g grid.
GridCells(g) == (0 .. (g - 1)) \X (0 .. (g - 1))

\* The region of the player with index i.
RegionOf(i) == allowed_positions(players[i + 1].clue, grid_size)

\* The region of every player, by index.
Regions == [i \in 0 .. (Len(players) - 1) |-> RegionOf(i)]

\* The cells that lie in every one of the regions reg[i], i in S.
CommonCells(S, reg) == {cell \in GridCells(grid_size) : \A i \in S : cell \in reg[i]}

AllCoalitions == SUBSET (0 .. (Len(players) - 1))

\* C1: the built characteristic function is monotone: for all coalitions
\* S and T of its domain with S a subset of T, v(S) <= v(T).
C1_Monotone ==
    built =>
        \A S \in DOMAIN values, T \in DOMAIN values :
            S \subseteq T => values[S] <= values[T]

\* A built function in which a non-empty coalition is strictly below a
\* proper superset.
C1_Witness ==
    /\ built
    /\ \E S \in DOMAIN values, T \in DOMAIN values :
           /\ S # {}
           /\ S \subseteq T
           /\ S # T
           /\ values[S] < values[T]

\* C2: every non-empty coalition S is mapped to gridSize*gridSize minus the
\* number of cells common to the regions of all members of S; a singleton
\* is mapped to the number of cells its one clue rules out.
C2_ValueIsEliminatedCells ==
    built /\ Len(players) > 0 =>
        \A reg \in {Regions} :
        /\ \A S \in AllCoalitions \ {{}} :
              /\ S \in DOMAIN values
              /\ values[S] = grid_size * grid_size - Cardinality(CommonCells(S, reg))
        /\ \A i \in 0 .. (Len(players) - 1) :
              values[{i}] = Cardinality(GridCells(grid_size) \ reg[i])

\* A built function with a coalition of two or more members whose common
\* cells are fewer than those of each member alone, yet not none.
C2_Witness ==
    /\ built
    /\ \E reg \in {Regions}, S \in DOMAIN values :
           /\ Cardinality(S) >= 2
           /\ CommonCells(S, reg) # {}
           /\ \A i \in S : values[S] > values[{i}]
           /\ values[S] = grid_size * grid_size - Cardinality(CommonCells(S, reg))

C4_ValueBounds ==
    built =>
        \A S \in DOMAIN values :
            0 <= values[S] /\ values[S] <= grid_size * grid_size

\* A built function that takes both extremes on non-empty coalitions.
C4_Witness ==
    /\ built
    /\ grid_size > 1
    /\ \E S \in DOMAIN values, T \in DOMAIN values :
           /\ S # {}
           /\ values[S] = 0
           /\ values[T] = grid_size * grid_size

-----------------------------------------------------------------------------
(* The rule table of the clue compiler as the specification words it, for  *)
(* the properties of allowed_positions (under SpecCompile).                *)

Digits == "0123456789"

IsDigit(ch) == \E i \in 1..10 : SubSeq(Digits, i, i) = ch

DigitValue(ch) == (CHOOSE i \in 1..10 : SubSeq(Digits, i, i) = ch) - 1

IsLetter(ch) == \E i \in 1..26 : SubSeq(LowerAlpha, i, i) = ch

LetterIndex(ch) == (CHOOSE i \in 1..26 : SubSeq(LowerAlpha, i, i) = ch) - 1

\* The number written by the digits of c that start at position i.
RECURSIVE ParseDigits(_, _, _)
ParseDigits(c, i, acc) ==
    IF i <= Len(c) /\ IsDigit(SubSeq(c, i, i))
    THEN ParseDigits(c, i + 1, acc * 10 + DigitValue(SubSeq(c, i, i)))
    ELSE acc

\* Digits follow "row is" at position i of the lowered clue c.
RowIsAt(c, i) ==
    /\ i + 7 <= Len(c)
    /\ SubSeq(c, i, i + 6) = "row is "
    /\ IsDigit(SubSeq(c, i + 7, i + 7))

HasRowIs(c) == \E i \in 1..Len(c) : RowIsAt(c, i)

\* The row the clue names, 1-based as in the text.
NamedRow(c) ==
    LET i == CHOOSE j \in 1..Len(c) :
                 RowIsAt(c, j) /\ \A k \in 1..(j - 1) : ~RowIsAt(c, k)
    IN  ParseDigits(c, i + 7, 0)

\* A single letter follows "column is" at position i of the lowered clue c.
ColumnIsAt(c, i) ==
    /\ i + 10 <= Len(c)
    /\ SubSeq(c, i, i + 9) = "column is "
    /\ IsLetter(SubSeq(c, i + 10, i + 10))
    /\ (i + 11 <= Len(c) => ~IsLetter(SubSeq(c, i + 11, i + 11)))

HasColumnIs(c) == \E i \in 1..Len(c) : ColumnIsAt(c, i)

\* The index of the column the clue names (A = 0).
NamedColumn(c) ==
    LET i == CHOOSE j \in 1..Len(c) :
                 ColumnIsAt(c, j) /\ \A k \in 1..(j - 1) : ~ColumnIsAt(c, k)
    IN  LetterIndex(SubSeq(c, i + 10, i + 10))

\* The rules of the table, top to bottom.
RuleOrder ==
    << "row is", "column is", "no deeper", "prime", "parity", "rank",
       "east of", "chronomancer" >>

KeywordRules == {"no deeper", "prime", "parity", "rank", "east of", "chronomancer"}

\* Whether the trigger of a rule occurs in the lowered clue c.
Triggered(rule, c) ==
    CASE rule = "row is"       -> HasRowIs(c)
      [] rule = "column is"    -> HasColumnIs(c)
      [] rule = "no deeper"    -> Contains("no deeper", c) \/ Contains("northern edge", c)
      [] rule = "prime"        -> Contains("prime sentinel", c) \/ Contains("prime", c)
      [] rule = "parity"       -> Contains("odd laugh", c) \/ Contains("parity", c)
      [] rule = "rank"         -> Contains("rank is strictly smaller", c)
                                     \/ Contains("bows to the column", c)
      [] rule = "east of"      -> Contains("east of", c) /\ Contains("f", c)
      [] rule = "chronomancer" -> Contains("second beat", c) \/ Contains("in threes", c)
                                     \/ Contains("chronomancer", c)

\* The rules whose trigger occurs in the clue, matched case-insensitively.
TableTriggers(clueText) ==
    {RuleOrder[k] : k \in {j \in 1..Len(RuleOrder) : Triggered(RuleOrder[j], lower(clueText))}}

\* The first rule, in table order, among the rules of T (T non-empty).
FirstRule(T) ==
    RuleOrder[CHOOSE k \in 1..Len(RuleOrder) :
                  RuleOrder[k] \in T /\ \A j \in 1..(k - 1) : RuleOrder[j] \notin T]

\* The region the table gives for a rule.
TableRegion(rule, clueText, g) ==
    CASE rule = "row is" ->
             {cell \in GridCells(g) : cell[1] = NamedRow(lower(clueText)) - 1}
      [] rule = "column is" ->
             {cell \in GridCells(g) : cell[2] = NamedColumn(lower(clueText))}
      [] rule = "no deeper" ->
             {cell \in GridCells(g) : cell[1] <= Min(4, g) - 1}
      [] rule = "prime" ->
             {cell \in GridCells(g) : cell[2] \in {2, 3, 5, 7}}
      [] rule = "parity" ->
             {cell \in GridCells(g) : (cell[1] + cell[2]) % 2 = 1}
      [] rule = "rank" ->
             {cell \in GridCells(g) : cell[1] < cell[2]}
      [] rule = "east of" ->
             {cell \in GridCells(g) : cell[2] >= 6}
      [] rule = "chronomancer" ->
             {cell \in GridCells(g) : cell[1] % 3 = 2}

C6_RowIsNamesRow ==
    compiled /\ HasRowIs(lower(clue)) /\ NamedRow(lower(clue)) \in 1..grid =>
        region = {<<NamedRow(lower(clue)) - 1, c>> : c \in 0 .. (grid - 1)}

\* C7: a clue in which a single letter follows "column is" compiles to
\* exactly the cells of the named column (letter to index, A = 0).
C7_ColumnIsNamesColumn ==
    compiled /\ HasColumnIs(lower(clue)) /\ NamedColumn(lower(clue)) \in 0 .. (grid - 1) =>
        region = {<<r, NamedColumn(lower(clue))>> : r \in 0 .. (grid - 1)}

\* C8: a clue whose only matching trigger is one of the six keyword rules,
\* matched case-insensitively, compiles to the region the rule table gives
\* for that rule.
C8_KeywordRuleRegions ==
    compiled =>
        \A rule \in KeywordRules :
            TableTriggers(clue) = {rule} => region = TableRegion(rule, clue, grid)

\* A clue written with capitals, matched by one keyword rule only, whose
\* region is neither empty nor the whole grid.
C8_Witness ==
    /\ compiled
    /\ clue # lower(clue)
    /\ \E rule \in KeywordRules : TableTriggers(clue) = {rule}
    /\ region # {}
    /\ region # GridCells(grid)

\* C9: when a clue contains the triggers of more than one rule, the
\* compiled region is that of the rule that comes first in the table order
\* (row is, column is, no deeper, prime, parity, rank, east of,
\* chronomancer).
C9_FirstRuleWins ==
    compiled /\ Cardinality(TableTriggers(clue)) >= 2 =>
        region = TableRegion(FirstRule(TableTriggers(clue)), clue, grid)

\* C10: a clue text that matches no rule, the empty string included,
\* compiles to the full grid at every grid size; "I like turtles" on a 4x4
\* grid yields all 16 cells.
C10_FailOpen ==
    compiled =>
        /\ TableTriggers(clue) = {} => region = GridCells(grid)
        /\ clue = "I like turtles" /\ grid = 4 => Cardinality(region) = 16

\* "I like turtles" compiled on a 4x4 grid.
C10_Witness ==
    /\ compiled
    /\ clue = "I like turtles"
    /\ grid = 4
    /\ TableTriggers(clue) = {}
    /\ Cardinality(region) = 16

-----------------------------------------------------------------------------
(* Properties of shapley_sample (under SpecShapley).  Payouts are compared  *)
(* as real numbers: sums and integer multiples of floats are formed without *)
(* rounding.                                                                *)

\* The coalition of all agents.
FullCoalition == Range(0, n_players)

\* The call is made with every weight equal to 1.
UnitWeighted == EffectiveWeights(weights, n_players) = Ones(n_players)

\* Sum of a list of integers.
RECURSIVE SumInts(_)
SumInts(xs) == IF xs = <<>> THEN 0 ELSE Head(xs) + SumInts(Tail(xs))

\* a + b for non-negative reals [mant, exp] with numerals of any length
RealAdd(a, b) ==
    IF a.mant = <<>> THEN b
    ELSE IF b.mant = <<>> THEN a
    ELSE LET e == Min(a.exp, b.exp)
         IN  Canonical(FALSE,
                       BigAdd(ShiftLeft(a.mant, a.exp - e),
                              ShiftLeft(b.mant, b.exp - e), 0), e)

\* The non-negative real of an integer's magnitude.
RealOfNat(k) == Canonical(FALSE, Limbs(k), 0)

\* Sum of the magnitudes of the floats of a list whose sign bit is neg.
RECURSIVE MagnitudeSum(_, _)
MagnitudeSum(fs, neg) ==
    IF fs = <<>> THEN RealOfNat(0)
    ELSE LET rest == MagnitudeSum(Tail(fs), neg)
         IN  IF Head(fs).neg = neg
             THEN RealAdd([Head(fs) EXCEPT !.neg = FALSE], rest)
             ELSE rest

\* a < b for numerals without zero limbs at the high end
BigLess(a, b) ==
    IF Len(a) # Len(b) THEN Len(a) < Len(b)
    ELSE \E i \in 1..Len(a) :
             /\ a[i] < b[i]
             /\ \A j \in (i + 1)..Len(a) : a[j] = b[j]

\* a - b - borrow for numerals with a >= b + borrow
RECURSIVE BigSub(_, _, _)
BigSub(a, b, borrow) ==
    IF a = <<>> THEN <<>>
    ELSE LET y == IF b = <<>> THEN 0 ELSE Head(b)
             d == Head(a) - y - borrow
         IN  <<d % Base>> \o BigSub(Tail(a), IF b = <<>> THEN b ELSE Tail(b),
                                    IF d < 0 THEN 1 ELSE 0)

\* The sum of a list of floats as a real number [neg, mant, exp], with a
\* numeral of any length.
RealSum(fs) ==
    LET pos == MagnitudeSum(fs, FALSE)
        neg == MagnitudeSum(fs, TRUE)
        e   == Min(pos.exp, neg.exp)
        ShiftP == ShiftLeft(pos.mant, pos.exp - e)
        ShiftN == ShiftLeft(neg.mant, neg.exp - e)
    IN  IF neg.mant = <<>> THEN pos
        ELSE IF pos.mant = <<>> THEN [neg EXCEPT !.neg = TRUE]
        ELSE IF BigLess(ShiftP, ShiftN)
             THEN Canonical(TRUE, BigSub(ShiftN, ShiftP, 0), e)
             ELSE Canonical(FALSE, BigSub(ShiftP, ShiftN, 0), e)

\* The real number of an integer.
RealOfInt(k) == Canonical(k < 0, Limbs(IF k < 0 THEN -k ELSE k), 0)

\* The floats of a list sum, as real numbers, to the integer k.
RealSumEquals(fs, k) == RealSum(fs) = RealOfInt(k)

\* The floats of a list sum to the float of the integer k when the sum is
\* formed exactly and rounded once: the most accurate float sum there is.
FloatSumEquals(fs, k) ==
    \E r \in {RealSum(fs)} :
        RoundNearestEven(r.neg, r.mant, r.exp) = RealOfInt(k)

\* 1.0 / s is computed without rounding: s is a power of two.
ExactReciprocal(s) == FloatReciprocal(s).mant = <<1>>

\* C11 as stated: with all weights equal to 1 and samples >= 1, the payouts
\* returned for a characteristic function with v(empty) = 0 sum to
\* v(full coalition), even when the sum is allowed one rounding to a float.
C11_PayoutsSumToFullValue ==
    (outcome = "returned" /\ samples >= 1 /\ UnitWeighted
        /\ VGet(v, {}) = 0)
    => FloatSumEquals(payouts, VGet(v, FullCoalition))

\* C11 amended: with all weights equal to 1 and v(empty) = 0 the marginal
\* contributions of every sampled permutation telescope, so after each
\* sample the accumulators sum to (samples drawn) * v(full coalition); the
\* payouts are the accumulators times the float 1.0 / samples, and they sum
\* to v(full coalition) exactly when that reciprocal is exact.
C11_AccumulatorsTelescope ==
    (outcome \in {"running", "returned"} /\ UnitWeighted /\ VGet(v, {}) = 0)
    => /\ SumInts(phi) = drawn * VGet(v, FullCoalition)
       /\ (outcome = "returned" /\ samples >= 1 /\ ExactReciprocal(samples))
          => RealSumEquals(payouts, VGet(v, FullCoalition))

\* Two agents with unit weights are both paid after several samples, and
\* the accumulators hold samples * v(full coalition) between them.
C11_Witness ==
    /\ outcome = "returned"
    /\ UnitWeighted
    /\ n_players = 2
    /\ samples > 1
    /\ drawn = samples
    /\ phi[1] > 0
    /\ phi[2] > 0
    /\ SumInts(phi) = samples * VGet(v, FullCoalition)
    /\ ExactReciprocal(samples)

\* The weights list has one weight for each agent.
ProperWeights == Len(EffectiveWeights(weights, n_players)) = n_players

\* w[1] * xs[1] + ... + w[n] * xs[n] from position i on
RECURSIVE Dot(_, _, _)
Dot(w, xs, i) ==
    IF i > Len(xs) THEN 0 ELSE w[i] * xs[i] + Dot(w, xs, i + 1)

\* C12 as stated: for every weight vector that is not all ones, the payouts
\* sum to a weighted aggregate that differs from v(full coalition).
C12_NonUnitWeightsBreakEfficiency ==
    (outcome = "returned" /\ samples >= 1 /\ ProperWeights /\ ~UnitWeighted
        /\ VGet(v, {}) = 0)
    => ~RealSumEquals(payouts, VGet(v, FullCoalition))

\* C12 amended: for every weight vector the accumulators sum to the weighted
\* aggregate  sum of w[i] * (accumulator of agent i under unit weights);
\* with v(empty) = 0 that sum differs from (samples drawn) * v(full
\* coalition) exactly when  sum of (w[i] - 1) * (unit accumulator of i)  is
\* not 0, which a weight vector that is not all ones allows but does not
\* force.
C12_WeightedAggregate ==
    (outcome \in {"running", "returned"} /\ ProperWeights /\ VGet(v, {}) = 0)
    => \E w \in {EffectiveWeights(weights, n_players)} :
          /\ SumInts(phi) = Dot(w, phi_unit, 1)
          /\ (SumInts(phi) = drawn * VGet(v, FullCoalition))
             <=> (Dot([i \in 1..n_players |-> w[i] - 1], phi_unit, 1) = 0)

\* Scenario 4's kind of call: a weight vector that is not all ones, and
\* accumulators that do not sum to samples * v(full coalition).
C12_Witness ==
    /\ outcome = "returned"
    /\ samples >= 1
    /\ ProperWeights
    /\ ~UnitWeighted
    /\ VGet(v, {}) = 0
    /\ VGet(v, FullCoalition) > 0
    /\ SumInts(phi) # samples * VGet(v, FullCoalition)
    /\ SumInts(phi) = Dot(EffectiveWeights(weights, n_players), phi_unit, 1)

\* Scenario 1: two agents on a 2 x 2 grid, the region of agent 0 the whole
\* grid and the region of agent 1 one cell; the mapping is the builder's.
Scenario1Call ==
    /\ built
    /\ grid_size = 2
    /\ Len(players) = 2
    /\ players[1].clue = ""
    /\ players[2].clue = "rank is strictly smaller"
    /\ v = values
    /\ n_players = 2

\* Scenario 4: Scenario 1's mapping with weights [1, 5].
Scenario4Call == Scenario1Call /\ weights = GivenWeights(<<1, 5>>)

\* The payouts the same call returns under unit weights for the same
\* permutations.
UnitPayouts == Scale(phi_unit, samples)

\* C13 as stated: for the same sampled permutations, the payout of agent i
\* under weights w is w[i] times its payout under unit weights (the product
\* being allowed one rounding to a float), and Scenario 4 pays agent 0
\* exactly 0 and agent 1 exactly 15.
C13_PayoutIsWeightTimesUnitPayout ==
    (outcome = "returned" /\ samples >= 1 /\ ProperWeights)
    => /\ \A i \in 1..n_players :
             payouts[i] = FloatTimes(EffectiveWeights(weights, n_players)[i],
                                     UnitPayouts[i])
       /\ Scenario4Call => payouts = <<FloatOfInt(0), FloatOfInt(15)>>

\* C13 amended: for the same sampled permutations, the accumulator of agent
\* i under weights w is w[i] times its accumulator under unit weights,
\* whatever the other weights are; the payout is that accumulator times the
\* float 1.0 / samples.  In Scenario 4 the accumulators are 0 and
\* 15 * samples, and the payouts are exactly 0 and 15 when 1.0 / samples is
\* exact and at the end-game sample count.
C13_AccumulatorIsWeightTimesUnit ==
    (outcome \in {"running", "returned"} /\ ProperWeights)
    => /\ \A i \in 1..n_players :
             phi[i] = EffectiveWeights(weights, n_players)[i] * phi_unit[i]
       /\ outcome = "returned" /\ samples >= 1
             => payouts = Scale(phi, samples)
       /\ Scenario4Call
             => /\ phi = <<0, 15 * drawn>>
                /\ phi_unit = <<0, 3 * drawn>>
                /\ (outcome = "returned" /\ samples >= 1
                        /\ ExactReciprocal(samples))
                      => payouts = <<FloatOfInt(0), FloatOfInt(15)>>
                /\ Scale(<<0, 15 * EndGameSamples>>, EndGameSamples)
                      = <<FloatOfInt(0), FloatOfInt(15)>>

\* Scenario 4 has returned after several samples.
C13_Witness ==
    /\ outcome = "returned"
    /\ Scenario4Call
    /\ samples > 1
    /\ phi = <<0, 15 * samples>>
    /\ phi_unit = <<0, 3 * samples>>

\* The region of agent i (position i + 1 of players) is the whole grid.
FullGridAgent(i) ==
    allowed_positions(players[i + 1].clue, grid_size) = GridCells(grid_size)

\* The mapping handed to shapley_sample is the one built for the players.
BuiltCall == built /\ v = values /\ n_players = Len(players)

\* Scenario 1's mapping: v(empty) = 0, v({0}) = 0, v({1}) = 3, v({0,1}) = 3.
Scenario1Values ==
    v = [S \in SUBSET {0, 1} |-> IF 1 \in S THEN 3 ELSE 0]

\* Agent i adds nothing to any coalition.
NullPlayer(i) ==
    \A S \in SUBSET FullCoalition : VGet(v, S \cup {i}) = VGet(v, S)

C15_PayoutLength ==
    /\ outcome = "returned" => Len(payouts) = n_players
    /\ (n_players = 0 /\ samples >= 1)
          => /\ outcome \in {"running", "returned"}
             /\ outcome = "returned" => payouts = <<>> /\ drawn = samples

\* A call for no agents has returned the empty list after several samples.
C15_Witness ==
    /\ outcome = "returned"
    /\ n_players = 0
    /\ samples > 1
    /\ drawn = samples
    /\ payouts = <<>>

\* The call has ended in an exception.
Raised == outcome \in {"ZeroDivisionError", "IndexError"}

\* The call has ended, one way or the other.
Ended == outcome = "returned" \/ Raised

\* C16: a call with samples <= 0 always ends in a failure and returns no
\* payout list.
C16_NonPositiveSamplesRejected ==
    (samples <= 0 /\ Ended) => Raised /\ payouts = <<>>

\* C17: a call whose weights list is shorter or longer than n_players
\* always ends in a failure.
C17_WeightsLengthChecked ==
    (weights.given /\ Len(weights.list) # n_players /\ Ended) => Raised

\* C20: a partial mapping is accepted and its absent coalitions count as 0:
\* after every sample the accumulators equal those of the same call on the
\* mapping completed with zeros, for the same permutations, and so do the
\* returned payouts.
C20_AbsentCoalitionsAreZero ==
    /\ phi = phi_full
    /\ outcome = "returned" => payouts = Scale(phi_full, samples)

\* A ledger that lacks coalitions of the agents has been sampled and paid
\* out, with an absent coalition read next to a present one.
C20_Witness ==
    /\ outcome = "returned"
    /\ samples >= 1
    /\ ProperWeights
    /\ \E S \in SUBSET FullCoalition : S \notin DOMAIN v
    /\ \E S \in DOMAIN v : v[S] # 0
    /\ \E i \in 1..n_players : phi[i] # 0
    /\ phi = phi_full

-----------------------------------------------------------------------------
(* Property of the builder on a crowd (under SpecBuildCrowd).               *)

\* C18: the builder fails fast when there are more agents than MAX_PLAYERS:
\* it enumerates no subset and returns no mapping.
C18_BuilderRejectsCrowd ==
    (built /\ Len(players) > MAX_PLAYERS) => DOMAIN values = {}

-----------------------------------------------------------------------------
(* Property of a repeated call (under SpecRepeat).                          *)

\* C19: two calls with identical arguments return identical payouts: the
\* permutations depend on nothing but what the caller passes.
C19_RepeatedCallSamePayouts ==
    (previous.made /\ outcome = "returned") => payouts = previous.payouts


-----------------------------------------------------------------------------
(* Properties of the game (under Spec).                                     *)

\* The step enters END: End Game pressed, or the last treasure claimed.
EntersEnd == state # END /\ state' = END

\* The step is a restart: END is left for SETUP.
Restarts == state = END /\ state' = SETUP

\* The step is a successful Start Game.
Starts == state = SETUP /\ state' = AWAIT_COMMIT

\* The step is an accepted guess: one entry is appended to revealed.
Guesses == Len(revealed') = Len(revealed) + 1

\* The list of the players' weights, as _end_game passes it.
WeightsOf(ps) == [i \in DOMAIN ps |-> ps[i].weight]

\* C21: the characteristic function and the payouts are computed once per
\* game, on the step into END: outside END nothing is computed and payouts
\* is None, in END the builder has run, the step into END stores the
\* builder's mapping of the players and either None or a result of the
\* estimator on it, and a step that stays in END changes neither.
C21_PayoutsComputedOnceOnEnd ==
    /\ [](state # END => game_payouts = NoPayouts /\ ~built /\ values = <<>>)
    /\ [](state = END => built)
    /\ [][/\ EntersEnd =>
               /\ ~built /\ built'
               /\ values' = calculate_clues_based_characteristic_function(
                                players, grid_size)
               /\ \/ game_payouts' = NoPayouts
                  \/ game_payouts' \in EstimatorPayouts(values', players)
          /\ (state = END /\ state' = END) =>
               UNCHANGED <<game_payouts, values, built>>
          /\ (game_payouts' # game_payouts \/ values' # values
                 \/ built' # built) => (EntersEnd \/ Restarts)]_vars

\* The game ended by the claim of its last treasure and holds payouts.
C21_Witness ==
    /\ state = END
    /\ game_payouts.given
    /\ treasure_grid # EmptyGrid
    /\ AllClaimed(treasure_grid)
    /\ built

\* C22: no partial result is exposed: once _end_game has run the game is
\* in END, and there payouts is None exactly when the estimator raised,
\* and otherwise a list with one entry for each player.
C22_PayoutsCompleteOrNone ==
    /\ [][(built' /\ ~built) => state' = END]_vars
    /\ [](state = END =>
            IF EstimatorRaises(players)
            THEN game_payouts = NoPayouts
            ELSE /\ game_payouts.given
                 /\ DOMAIN game_payouts.list = 1..Len(players))

\* A game whose estimator raised on a weight that is no number, ended by
\* the End Game button after a guess.
C22_Witness ==
    /\ state = END
    /\ built
    /\ game_payouts = NoPayouts
    /\ Len(players) >= MIN_PLAYERS
    /\ revealed # <<>>

\* The indices of the players whose commit flag is set.
Committed == {i \in 0 .. (Len(commits) - 1) : commits[i + 1]}

\* C23: in AWAIT_GUESS the coalition is locked, non-empty and equal to the
\* set of indices whose commit flag is set; in AWAIT_COMMIT the coalition
\* is not locked, current_coalition is empty and allowed_guesses is None;
\* and no step leaves AWAIT_COMMIT for AWAIT_GUESS with no player committed.
C23_LockedCoalitionIsCommittedSet ==
    /\ [](state = AWAIT_GUESS =>
            /\ coalition_locked
            /\ current_coalition # {}
            /\ current_coalition = Committed)
    /\ [](state = AWAIT_COMMIT =>
            /\ ~coalition_locked
            /\ current_coalition = {}
            /\ allowed_guesses = NoGuesses)
    /\ [][(state = AWAIT_COMMIT /\ Committed = {}) =>
              state' \in {AWAIT_COMMIT, END}]_vars

\* A coalition of two or more players is locked in the second round.
C23_Witness ==
    /\ state = AWAIT_GUESS
    /\ round = 2
    /\ Cardinality(current_coalition) >= 2
    /\ current_coalition = Committed

\* C24: a step out of SETUP goes to AWAIT_COMMIT and is a Start Game that
\* read between MIN_PLAYERS and MAX_PLAYERS non-empty names, pairwise
\* distinct, a clues file with at least that many players and a board that
\* loads; after a start that failed the game is in SETUP with a non-empty
\* error message; and in AWAIT_COMMIT, AWAIT_GUESS and END the number of
\* players is between MIN_PLAYERS and MAX_PLAYERS and equals the number of
\* commit flags.
C24_SetupLeftOnlyByValidStart ==
    /\ [][(state = SETUP /\ state' # SETUP) =>
              /\ state' = AWAIT_COMMIT
              /\ last_start'.made
              /\ MIN_PLAYERS <= last_start'.names
              /\ last_start'.names <= MAX_PLAYERS
              /\ last_start'.distinct
              /\ last_start'.clues >= last_start'.names
              /\ last_start'.board
              /\ Len(players') = last_start'.names]_vars
    /\ []((state = SETUP /\ last_start.made) => setup_error_message # "")
    /\ [](state \in {AWAIT_COMMIT, AWAIT_GUESS, END} =>
              /\ MIN_PLAYERS <= Len(players)
              /\ Len(players) <= MAX_PLAYERS
              /\ Len(commits) = Len(players))

\* A game of four players started from four name boxes.
C24_Witness ==
    /\ state = AWAIT_COMMIT
    /\ round = 1
    /\ name_inputs = 4
    /\ last_start.names = 4
    /\ Len(players) = 4

\* The sum of f over the keys in K.
RECURSIVE SumOver(_, _)
SumOver(f, K) ==
    IF K = {} THEN 0
    ELSE LET k == CHOOSE x \in K : TRUE IN f[k] + SumOver(f, K \ {k})

\* sum(self.ledger.values())
LedgerTotal(l) == SumOver(l, DOMAIN l)

\* The sum of the values of the treasures that are claimed.
ClaimedTotal(g) ==
    SumOver([cell \in DOMAIN g |-> g[cell].value],
            {cell \in DOMAIN g : g[cell].claimed})

\* The coins of a guess on the cell: the value of an unclaimed treasure
\* there, 0 on an empty or an already claimed cell.
CoinsAt(g, cell) ==
    IF cell \in DOMAIN g /\ ~g[cell].claimed THEN g[cell].value ELSE 0

\* C25: the sum of the ledger equals the sum of the values of the claimed
\* treasures; an accepted guess credits the coins of its cell to the locked
\* coalition and to no other, claims no treasure but the one it hit, and a
\* claimed treasure stays claimed until the grid is replaced.
C25_LedgerMatchesClaimedTreasures ==
    /\ [](LedgerTotal(ledger) = ClaimedTotal(treasure_grid))
    /\ [][Guesses =>
              LET cell == <<revealed'[Len(revealed')][1],
                            revealed'[Len(revealed')][2]>>
              IN  /\ DOMAIN ledger' = DOMAIN ledger \cup {current_coalition}
                  /\ \A S \in DOMAIN ledger' :
                        ledger'[S] =
                            (IF S \in DOMAIN ledger THEN ledger[S] ELSE 0)
                            + (IF S = current_coalition
                               THEN CoinsAt(treasure_grid, cell) ELSE 0)
                  /\ \A other \in DOMAIN treasure_grid \ {cell} :
                        treasure_grid'[other] = treasure_grid[other]]_vars
    /\ [][(~Guesses /\ ledger' # ledger) =>
              (ledger' = EmptyLedger /\ (Starts \/ Restarts))]_vars

\* A treasure is claimed after an earlier miss of another coalition: the
\* ledger has two entries, one of them 0.
C25_Witness ==
    /\ \E cell \in DOMAIN treasure_grid : treasure_grid[cell].claimed
    /\ Cardinality(DOMAIN ledger) = 2
    /\ \E S \in DOMAIN ledger : ledger[S] = 0
    /\ LedgerTotal(ledger) = 20

\* The cell of the last accepted guess.
GuessedCell(rev) == <<rev[Len(rev)][1], rev[Len(rev)][2]>>

\* The cells in the region of at least one member of the coalition S.
UnionOfRegions(S) ==
    {cell \in GridCells(grid_size) : \E i \in S : cell \in RegionOf(i)}

\* C26: a guess is accepted only in AWAIT_GUESS, with the coalition locked,
\* and on a cell in the region of at least one member of the locked
\* coalition; in AWAIT_GUESS allowed_guesses is the union of the members'
\* regions; and no other step but a successful start or a restart changes
\* the ledger, revealed or the treasures.
C26_GuessOnlyInUnionOfRegions ==
    /\ [][Guesses =>
              /\ state = AWAIT_GUESS
              /\ coalition_locked
              /\ GuessedCell(revealed') \in UnionOfRegions(current_coalition)
              /\ SubSeq(revealed', 1, Len(revealed)) = revealed]_vars
    /\ [](state = AWAIT_GUESS =>
              allowed_guesses = SomeGuesses(UnionOfRegions(current_coalition)))
    /\ [][(ledger' # ledger \/ revealed' # revealed
              \/ treasure_grid' # treasure_grid) =>
              (Guesses \/ Starts \/ Restarts)]_vars

\* The treasure was hit on a cell that lies in the region of one member of
\* the coalition and outside the region of another.
C26_Witness ==
    /\ state = END
    /\ revealed # <<>>
    /\ revealed[Len(revealed)][3]
    /\ \E i, j \in current_coalition :
          /\ GuessedCell(revealed) \in RegionOf(i)
          /\ GuessedCell(revealed) \notin RegionOf(j)

\* Every treasure on the grid is claimed.
EveryTreasureClaimed(g) == \A cell \in DOMAIN g : g[cell].claimed

\* C27: after an accepted guess the game is in END exactly if every
\* treasure is claimed, and then the round is as before; otherwise it is in
\* AWAIT_COMMIT with the round one higher, every commit flag false, the
\* coalition cleared and unlocked and allowed_guesses None.  Besides that
\* the round changes only by a successful start, to 1, and by a restart,
\* to 0.
C27_GuessEndsOrOpensNextRound ==
    /\ [][Guesses =>
              /\ state' = END <=> EveryTreasureClaimed(treasure_grid')
              /\ state' = END => round' = round
              /\ state' # END =>
                    /\ state' = AWAIT_COMMIT
                    /\ round' = round + 1
                    /\ Len(commits') = Len(players)
                    /\ \A i \in DOMAIN commits' : ~commits'[i]
                    /\ current_coalition' = {}
                    /\ ~coalition_locked'
                    /\ allowed_guesses' = NoGuesses]_vars
    /\ [][round' # round =>
              \/ Guesses /\ state' = AWAIT_COMMIT
              \/ Starts /\ round' = 1
              \/ Restarts /\ round' = 0]_vars

\* A miss opened the second round.
C27_Witness ==
    /\ state = AWAIT_COMMIT
    /\ round = 2
    /\ Len(revealed) = 1
    /\ ~revealed[1][3]
    /\ ~EveryTreasureClaimed(treasure_grid)

\* Everything but the commit flags.
exceptCommits ==
    <<state, name_inputs, setup_error_message, players, treasure_grid,
      ledger, revealed, current_coalition, coalition_locked, round,
      game_payouts, allowed_guesses, last_guess_result, values, built,
      grid_size>>

\* C28: the commit flags change by a toggle only in AWAIT_COMMIT, where a
\* toggle flips the flag of one player and leaves everything else; the
\* other changes of the flags are their reset after a guess, a successful
\* start and a restart.  Hence while the game waits for the guess of a
\* locked coalition, the flags and the coalition stay as they are.
C28_ToggleOnlyInAwaitCommit ==
    /\ [][(commits' # commits /\ ~Guesses /\ ~Starts /\ ~Restarts) =>
              /\ state = AWAIT_COMMIT
              /\ \E i \in DOMAIN commits :
                    commits' = [commits EXCEPT ![i] = ~commits[i]]
              /\ UNCHANGED exceptCommits]_vars
    /\ [][(state \in {SETUP, AWAIT_GUESS, END}
              /\ ~Guesses /\ ~Starts /\ ~Restarts) =>
              UNCHANGED <<commits, current_coalition, ledger, round>>]_vars
    /\ [][(state = AWAIT_GUESS /\ ~Guesses) =>
              UNCHANGED <<commits, current_coalition, coalition_locked>>]_vars

\* Two players are committed and the coalition is not yet locked.
C28_Witness ==
    /\ state = AWAIT_COMMIT
    /\ Cardinality({i \in DOMAIN commits : commits[i]}) = 2
    /\ current_coalition = {}
    /\ ~coalition_locked

\* C29: a step taken in END is a restart, which leads to SETUP with
\* players, ledger, revealed and commits empty, round 0 and payouts None,
\* or it leaves state, ledger, revealed, round and players as they are;
\* and SETUP is entered from no state but END.
C29_EndAbsorbingButRestart ==
    /\ [][state = END =>
              \/ /\ state' = SETUP
                 /\ players' = <<>>
                 /\ ledger' = EmptyLedger
                 /\ revealed' = <<>>
                 /\ commits' = <<>>
                 /\ round' = 0
                 /\ game_payouts' = NoPayouts
              \/ UNCHANGED <<state, ledger, revealed, round, players>>]_vars
    /\ [][(state # SETUP /\ state' = SETUP) => state = END]_vars

\* The game ended in its second round with coins in the ledger.
C29_Witness ==
    /\ state = END
    /\ round = 2
    /\ Len(revealed) = 2
    /\ LedgerTotal(ledger) > 0
    /\ players # <<>>

-----------------------------------------------------------------------------
(* The east-of rule of the clue compiler (under SpecCompile).               *)

\* A rule that the code tests before the east-of rule matches the lowered
\* clue c.
EarlierRuleMatches(c) ==
    \E rule \in {"no deeper", "prime", "parity", "rank"} : Triggered(rule, c)

\* C30: a clue that contains "east of" contains the letter f, so the second
\* condition of the east-of rule adds nothing: if no earlier rule matches,
\* the clue compiles to the columns 6 .. grid - 1 whatever column letter it
\* names, which is the empty set on a grid of size 6 or less.
C30_EastOfIgnoresNamedColumn ==
    /\ Contains("east of", lower(clue)) => Contains("f", lower(clue))
    /\ (compiled /\ Contains("east of", lower(clue))
           /\ ~EarlierRuleMatches(lower(clue))) =>
          /\ region = {cell \in GridCells(grid) : cell[2] >= 6}
          /\ grid <= 6 => region = {}

\* "east of C" compiled on a grid of size 7: the region is column 6, not
\* the columns east of C.
C30_Witness ==
    /\ compiled
    /\ clue = "east of C"
    /\ grid = 7
    /\ region = {<<r, 6>> : r \in 0..6}
    /\ <<0, 3>> \notin region

=============================================================================
